---- MODULE Spec2Model ----
(***************************************************************************)
(* Model of the mchplnet LNet protocol stack: the frame codec              *)
(* (lnetframe.py), the service frames (services/*.py) and the orchestrator *)
(* (lnet.py), together with the transport they talk to.                    *)
(*                                                                         *)
(* Python values are modelled as tagged records so that values of          *)
(* different Python types can be compared:                                 *)
(*   PyNone, PyExc(e) (an exception raised to the caller), PyBytes(s),     *)
(*   PyStr(s), PyClass(n), PyList(s).                                      *)
(* A received frame is a list of two-digit hex strings, one per byte; a    *)
(* hex string is modelled as the pair of its digit values <<hi, lo>>.      *)
(***************************************************************************)
EXTENDS Integers, Sequences, FiniteSets, TLC

(***************************************************************************)
(* Bounds of the model.                                                    *)
(***************************************************************************)
NumThreads == 2
MaxCalls == 3
MaxData == 2
MaxSerialize == 2
MaxLen == 4
MaxNames == 10

(***************************************************************************)
(* Program constants.                                                      *)
(***************************************************************************)
SYN == 85
NODE == 1
RESERVED_SYN == 85
RESERVED_02 == 2
CRC_FOR_55 == 170
CRC_FOR_02 == 253
ID_DEVICE_INFO == 0
ID_GET_RAM == 9
ID_PUT_RAM == 10
ID_LOAD_PARAMETER == 17
ID_SAVE_PARAMETER == 18
SERVICE_ID_INDEX == 3
ERROR_ID_INDEX == 4
CHANNEL_LIMIT == 8

(***************************************************************************)
(* Python values.                                                          *)
(***************************************************************************)
PyNone == [t |-> "None"]
PyExc(e) == [t |-> "raise", exc |-> e]
PyBytes(s) == [t |-> "bytes", v |-> s]
PyStr(s) == [t |-> "str", v |-> s]
PyList(s) == [t |-> "list", v |-> s]
PyClass(n) == [t |-> "class", v |-> n]
PyInt(i) == [t |-> "int", v |-> i]
PyBool(b) == [t |-> "bool", v |-> b]
Raised(x) == x.t = "raise"

(***************************************************************************)
(* Hex strings: bytes.hex() of one byte and int(x, 16).                    *)
(***************************************************************************)
Hex(b) == <<b \div 16, b % 16>>
Int16(h) == h[1] * 16 + h[2]
HexList(bs) == [i \in 1..Len(bs) |-> Hex(bs[i])]
IntList(hs) == [i \in 1..Len(hs) |-> Int16(hs[i])]
STR_55 == <<5, 5>>
STR_02 == <<0, 2>>

\* The({e(x) : x \in {v}}) is LET x == v IN e(x), with v evaluated only once.
The(S) == CHOOSE y \in S : TRUE

RECURSIVE Sum(_)
Sum(s) == IF s = <<>> THEN 0 ELSE Head(s) + Sum(Tail(s))

InsertAt(s, i, x) == SubSeq(s, 1, i - 1) \o <<x>> \o SubSeq(s, i, Len(s))
RemoveAt(s, i) == SubSeq(s, 1, i - 1) \o SubSeq(s, i + 1, Len(s))

(***************************************************************************)
(* LNetFrame._crc_checksum: sum modulo 256, with 0x55 -> 0xAA, 0x02 -> 0xFD *)
(***************************************************************************)
\* A variant without the remap of the reserved values.
_crc_checksum_plain(list_crc) == Sum(list_crc) % 256

_crc_checksum(list_crc) ==
    LET crc_calculation == Sum(list_crc) % 256
    IN  IF crc_calculation = RESERVED_SYN THEN CRC_FOR_55
        ELSE IF crc_calculation = RESERVED_02 THEN CRC_FOR_02
        ELSE crc_calculation

(***************************************************************************)
(* LNetFrame._skip_reserved_bytes: the loop over self.data from index 1    *)
(* (Python index i, TLA+ position i + 1).                                  *)
(***************************************************************************)
RECURSIVE SkipLoop(_, _, _)
SkipLoop(data, i, loop_length) ==
    IF i < loop_length
    THEN IF data[i + 1] = RESERVED_02 \/ data[i + 1] = RESERVED_SYN
         THEN SkipLoop(InsertAt(data, i + 2, 0), i + 1, loop_length + 1)
         ELSE SkipLoop(data, i + 1, loop_length)
    ELSE data

\* A variant whose loop starts at index 0, so that the SYN byte is stuffed too.
_skip_reserved_bytes_from_0(data) == SkipLoop(data, 0, Len(data))

\* A variant whose loop starts at the first DATA byte, so that a SIZE byte of
\* 0x55 or 0x02 gets no fill byte.
_skip_reserved_bytes_from_3(data) == SkipLoop(data, 3, Len(data))

_skip_reserved_bytes(data) == SkipLoop(data, 1, Len(data))

(***************************************************************************)
(* LNetFrame.error_id: the error table; a code outside the table raises    *)
(* KeyError (the handler catches IndexError only).                         *)
(***************************************************************************)
ErrorCodes == {0, 19, 20, 21, 33, 34, 48, 49, 64, 65, 66, 67, 80}

ErrorText(c) ==
    CASE c = 0 -> "No Error"
      [] c = 19 -> "Checksum Error"
      [] c = 20 -> "Format Error"
      [] c = 21 -> "Size too large"
      [] c = 33 -> "Service not available"
      [] c = 34 -> "Invalid DSP state"
      [] c = 48 -> "Flash write error"
      [] c = 49 -> "Flash write protect error"
      [] c = 64 -> "Invalid Parameter ID"
      [] c = 65 -> "Invalid Block ID"
      [] c = 66 -> "Parameter Limit error"
      [] c = 67 -> "Parameter table not initialized"
      [] c = 80 -> "Power-on Error"

error_id(c) == IF c \in ErrorCodes THEN PyStr(ErrorText(c)) ELSE PyExc("KeyError")

(***************************************************************************)
(* int.to_bytes(length, byteorder="little") of a non-negative integer.     *)
(***************************************************************************)
RECURSIVE Pow256(_)
Pow256(n) == IF n = 0 THEN 1 ELSE 256 * Pow256(n - 1)

\* v < 256^n, written so that 256^4 is never computed.
Fits(v, n) == v >= 0 /\ (IF n = 0 THEN v = 0 ELSE v \div Pow256(n - 1) < 256)
ToBytesLE(v, n) == [i \in 1..n |-> (v \div Pow256(i - 1)) % 256]

(***************************************************************************)
(* Scope model of services/frame_save_parameter.py (the one lnet.py        *)
(* imports).  channels is the insertion-ordered dict, as a sequence of     *)
(* channel records with distinct names.                                    *)
(***************************************************************************)
ScopeChannel(name, source_location, data_type_size, is_enable) ==
    [t |-> "ScopeChannel", name |-> name, source_location |-> source_location,
     data_type_size |-> data_type_size, source_type |-> 0,
     is_integer |-> FALSE, is_signed |-> TRUE, is_enable |-> is_enable]

ScopeTrigger ==
    [channel |-> PyNone, trigger_level |-> 0, trigger_delay |-> 0,
     trigger_edge |-> 1, trigger_mode |-> 0]

ScopeSetup ==
    [scope_state |-> 1, sample_time_factor |-> 1, channels |-> <<>>,
     scope_trigger |-> ScopeTrigger]

(***************************************************************************)
(* The methods of ScopeSetup that change it.  Each gives [res, setup]:     *)
(* what the call returns or raises and the ScopeSetup afterwards.          *)
(* services/scope.py holds a second ScopeSetup class; its methods carry    *)
(* the prefix scope_ here.  Its records are the same (the extra attributes *)
(* offset and scope_data are not used by these methods).                   *)
(***************************************************************************)
HasChannel(setup, channel_name) ==
    \E i \in 1..Len(setup.channels) : setup.channels[i].name = channel_name

\* self.channels.pop(channel_name)
PopChannel(chs, channel_name) == SelectSeq(chs, LAMBDA c : c.name # channel_name)

reset_trigger(setup) ==
    [res |-> PyNone, setup |-> [setup EXCEPT !.scope_trigger = ScopeTrigger]]

\* A variant that stores the given object under a name already present
\* (self.channels[channel.name] = channel before the membership test).
add_channel_overwrite(setup, channel, trigger) ==
    IF HasChannel(setup, channel.name)
    THEN [res |-> PyInt(Len(setup.channels)),
          setup |-> [setup EXCEPT !.channels =
                        [i \in 1..Len(@) |-> IF @[i].name = channel.name THEN channel
                                             ELSE @[i]]]]
    ELSE IF Len(setup.channels) > CHANNEL_LIMIT
    THEN [res |-> PyInt(-1), setup |-> setup]
    ELSE [res |-> PyInt(Len(setup.channels) + 1),
          setup |-> [setup EXCEPT !.channels = Append(@, channel)]]

\* frame_save_parameter.ScopeSetup.add_channel: the argument trigger is not used.
add_channel(setup, channel, trigger) ==
    IF HasChannel(setup, channel.name)
    THEN [res |-> PyInt(Len(setup.channels)), setup |-> setup]
    ELSE IF Len(setup.channels) > CHANNEL_LIMIT
    THEN [res |-> PyInt(-1), setup |-> setup]
    ELSE [res |-> PyInt(Len(setup.channels) + 1),
          setup |-> [setup EXCEPT !.channels = Append(@, channel)]]

\* frame_save_parameter.ScopeSetup.remove_channel
remove_channel(setup, channel_name) ==
    [res |-> PyNone,
     setup |-> [setup EXCEPT !.channels = PopChannel(@, channel_name)]]

\* frame_save_parameter.ScopeSetup.set_trigger
set_trigger(setup, channel, trigger_level, trigger_mode, trigger_delay, trigger_edge) ==
    IF channel = PyNone THEN [res |-> PyBool(FALSE), setup |-> setup]
    ELSE [res |-> PyBool(TRUE),
          setup |-> [setup EXCEPT !.scope_trigger =
                        [channel |-> channel, trigger_level |-> trigger_level,
                         trigger_delay |-> trigger_delay, trigger_edge |-> trigger_edge,
                         trigger_mode |-> trigger_mode]]]

\* scope.ScopeSetup.add_channel: the limit guards new names only; with
\* trigger=True the trigger is reset and bound to the channel, also when
\* the name is already there.
scope_add_channel(setup, channel, trigger) ==
    IF ~HasChannel(setup, channel.name) /\ Len(setup.channels) > CHANNEL_LIMIT
    THEN [res |-> PyInt(-1), setup |-> setup]
    ELSE LET chs == IF HasChannel(setup, channel.name) THEN setup.channels
                    ELSE Append(setup.channels, channel)
         IN  [res |-> PyInt(Len(chs)),
              setup |-> [setup EXCEPT
                            !.channels = chs,
                            !.scope_trigger =
                                IF trigger THEN [ScopeTrigger EXCEPT !.channel = channel]
                                ELSE @]]

\* scope.ScopeSetup.remove_channel: after the pop,
\* self.scope_trigger.channel.name raises AttributeError when the trigger
\* has no channel.
scope_remove_channel(setup, channel_name) ==
    IF ~HasChannel(setup, channel_name) THEN [res |-> PyNone, setup |-> setup]
    ELSE LET popped == [setup EXCEPT !.channels = PopChannel(@, channel_name)]
         IN  IF setup.scope_trigger.channel = PyNone
             THEN [res |-> PyExc("AttributeError"), setup |-> popped]
             ELSE IF setup.scope_trigger.channel.name = channel_name
             THEN [res |-> PyNone, setup |-> reset_trigger(popped).setup]
             ELSE [res |-> PyNone, setup |-> popped]

\* scope.ScopeSetup.set_trigger
scope_set_trigger(setup, scope_trigger) ==
    [res |-> PyNone, setup |-> [setup EXCEPT !.scope_trigger = scope_trigger]]

Word32LE(v) ==
    <<v % 256, (v \div 256) % 256, (v \div 65536) % 256, (v \div 16777216) % 256>>

create_trigger_data_type(setup) ==
    LET ch == setup.scope_trigger.channel
    IN  128 + (IF ch.is_signed THEN 32 ELSE 0)
            + (IF ch.is_integer THEN 0 ELSE 16) + ch.data_type_size

_get_scope_trigger_buffer(setup) ==
    LET trg == setup.scope_trigger
    IN  <<create_trigger_data_type(setup), trg.channel.source_type>>
        \o Word32LE(trg.channel.source_location)
        \o Word32LE(trg.trigger_level)
        \o Word32LE(trg.trigger_delay)
        \o <<trg.trigger_edge, trg.trigger_mode>>

\* A variant that writes a record for the disabled channels too.
RECURSIVE ChannelRecordsOfAll(_)
ChannelRecordsOfAll(chs) ==
    IF chs = <<>> THEN <<>>
    ELSE <<Head(chs).source_type>> \o Word32LE(Head(chs).source_location)
         \o <<Head(chs).data_type_size>> \o ChannelRecordsOfAll(Tail(chs))

RECURSIVE ChannelRecords(_)
ChannelRecords(chs) ==
    IF chs = <<>> THEN <<>>
    ELSE (IF Head(chs).is_enable
          THEN <<Head(chs).source_type>> \o Word32LE(Head(chs).source_location)
               \o <<Head(chs).data_type_size>>
          ELSE <<>>) \o ChannelRecords(Tail(chs))

\* Reading an attribute of scope_trigger.channel when it is None raises
\* AttributeError.
get_buffer(setup) ==
    IF setup.channels = <<>> THEN PyList(<<>>)
    ELSE IF setup.scope_trigger.channel = PyNone THEN PyExc("AttributeError")
    ELSE PyList(<<setup.scope_state, Len(setup.channels),
                  setup.sample_time_factor % 256,
                  (setup.sample_time_factor \div 256) % 256>>
                \o ChannelRecords(setup.channels)
                \o _get_scope_trigger_buffer(setup))

(***************************************************************************)
(* get_buffer of the ScopeSetup class of services/scope.py.  It differs in *)
(* the trigger block: the level takes data_type_size bytes and the delay   *)
(* is multiplied by the dataset size, both through int.to_bytes(length,    *)
(* byteorder="little", signed=True), which raises OverflowError when the   *)
(* value does not fit.                                                     *)
(***************************************************************************)
ToBytesSigned(v, n) ==
    IF n = 0 THEN (IF v = 0 THEN PyBytes(<<>>) ELSE PyExc("OverflowError"))
    ELSE IF (IF v >= 0 THEN v ELSE -v - 1) \div Pow256(n - 1) >= 128
    THEN PyExc("OverflowError")
    ELSE PyBytes([i \in 1..n |-> (v \div Pow256(i - 1)) % 256])

_trigger_level_to_bytes(setup) ==
    ToBytesSigned(setup.scope_trigger.trigger_level,
                  setup.scope_trigger.channel.data_type_size)

\* sum(channel.data_type_size for channel in self.channels.values())
get_dataset_size(setup) ==
    Sum([i \in 1..Len(setup.channels) |-> setup.channels[i].data_type_size])

_trigger_delay_to_bytes(setup) ==
    ToBytesSigned(setup.scope_trigger.trigger_delay * get_dataset_size(setup), 4)

scope_get_scope_trigger_buffer(setup) ==
    IF setup.scope_trigger.channel = PyNone THEN PyExc("AttributeError")
    ELSE LET trg == setup.scope_trigger
             level == _trigger_level_to_bytes(setup)
             delay == _trigger_delay_to_bytes(setup)
         IN  IF Raised(level) THEN level
             ELSE IF Raised(delay) THEN delay
             ELSE PyList(<<create_trigger_data_type(setup), trg.channel.source_type>>
                         \o Word32LE(trg.channel.source_location)
                         \o level.v \o delay.v
                         \o <<trg.trigger_edge, trg.trigger_mode>>)

scope_get_buffer(setup) ==
    IF setup.channels = <<>> THEN PyList(<<>>)
    ELSE LET trigger_buffer == scope_get_scope_trigger_buffer(setup)
         IN  IF Raised(trigger_buffer) THEN trigger_buffer
             ELSE PyList(<<setup.scope_state, Len(setup.channels),
                           setup.sample_time_factor % 256,
                           (setup.sample_time_factor \div 256) % 256>>
                         \o ChannelRecords(setup.channels)
                         \o trigger_buffer.v)

(***************************************************************************)
(* Frame objects: the constructors of the five service frames.  data is    *)
(* self.data, crc is self.crc.                                             *)
(***************************************************************************)
NoCrc == -1

FrameDeviceInfo ==
    [kind |-> "DeviceInfo", service_id |-> ID_DEVICE_INFO, data |-> <<>>, crc |-> NoCrc]

FrameGetRam(address, data_type, size, uc_width) ==
    [kind |-> "GetRam", service_id |-> ID_GET_RAM, data |-> <<>>, crc |-> NoCrc,
     address |-> address, read_Size |-> size, uc_width |-> uc_width,
     value_dataType |-> data_type]

FramePutRam(address, size, width, value) ==
    [kind |-> "PutRam", service_id |-> ID_PUT_RAM, data |-> <<>>, crc |-> NoCrc,
     address |-> address, size |-> size, value_dataType |-> width,
     user_value |-> value]

FrameLoadParameter ==
    [kind |-> "LoadParameter", service_id |-> ID_LOAD_PARAMETER, data |-> <<>>,
     crc |-> NoCrc, unique_parameter |-> PyInt(1)]

FrameSaveParameter(scope_setup) ==
    [kind |-> "SaveParameter", service_id |-> ID_SAVE_PARAMETER, data |-> <<>>,
     crc |-> NoCrc, unique_ID |-> ToBytesLE(1, 2), scope_setup |-> scope_setup]

(***************************************************************************)
(* _get_data of each service, called by serialize on an emptied self.data. *)
(* The result is [exc, frm]: the exception raised (PyNone when it returns) *)
(* and the frame object afterwards.  A width of None (NoneWidth) makes     *)
(* to_bytes raise TypeError; an address that does not fit raises           *)
(* OverflowError.  FrameGetRam and FrameSaveParameter return their list    *)
(* and leave self.data untouched.                                          *)
(***************************************************************************)
NoneWidth == -1

AddressBytes(address, width) ==
    IF width = NoneWidth THEN PyExc("TypeError")
    ELSE IF ~Fits(address, width) THEN PyExc("OverflowError")
    ELSE PyBytes(ToBytesLE(address, width))

_get_data(frm) ==
    CASE frm.kind = "DeviceInfo" ->
           [exc |-> PyNone, frm |-> [frm EXCEPT !.data = @ \o <<frm.service_id>>]]
      [] frm.kind = "GetRam" ->
           LET byte_address == AddressBytes(frm.address, frm.uc_width)
           IN  [exc |-> IF Raised(byte_address) THEN byte_address ELSE PyNone,
                frm |-> frm]
      [] frm.kind = "PutRam" ->
           LET byte_address == AddressBytes(frm.address, frm.value_dataType)
           IN  IF Raised(byte_address) THEN [exc |-> byte_address, frm |-> frm]
               ELSE [exc |-> PyNone,
                     frm |-> [frm EXCEPT !.data = @ \o <<frm.service_id>>
                                  \o byte_address.v \o <<frm.size>> \o frm.user_value]]
      [] frm.kind = "LoadParameter" ->
           IF frm.unique_parameter.t = "int"
           THEN LET up == ToBytesLE(frm.unique_parameter.v, 2)
                IN  [exc |-> PyNone,
                     frm |-> [frm EXCEPT !.unique_parameter = PyBytes(up),
                                         !.data = @ \o <<frm.service_id>> \o up]]
           ELSE [exc |-> PyExc("AttributeError"), frm |-> frm]
      [] frm.kind = "SaveParameter" ->
           LET buf == get_buffer(frm.scope_setup)
           IN  [exc |-> IF Raised(buf) THEN buf ELSE PyNone, frm |-> frm]

(***************************************************************************)
(* LNetFrame.serialize.  The result is [res, frm]: the returned bytearray  *)
(* (or the exception) and the frame object afterwards.  bytearray() of a   *)
(* list holding a value outside 0..255 raises ValueError.                  *)
(***************************************************************************)
\* A variant whose SIZE counts the fill bytes of DATA too.
FramedStuffedSize(data) ==
    <<SYN, Len(_skip_reserved_bytes(<<SYN>> \o data)) - 1, NODE>> \o data

Framed(data) == <<SYN, Len(data), NODE>> \o data

serialize(frm) ==
    The({IF Raised(got.exc) THEN [res |-> got.exc, frm |-> got.frm]
         ELSE The({The({IF \E i \in 1..Len(stuffed) : stuffed[i] \notin 0..255
                        THEN [res |-> PyExc("ValueError"),
                              frm |-> [got.frm EXCEPT !.data = stuffed, !.crc = crc]]
                        ELSE [res |-> PyBytes(stuffed),
                              frm |-> [got.frm EXCEPT !.data = stuffed, !.crc = crc]] :
                        stuffed \in {_skip_reserved_bytes(Framed(got.frm.data) \o <<crc>>)}}) :
                   crc \in {_crc_checksum(Framed(got.frm.data))}}) :
         got \in {_get_data([frm EXCEPT !.data = <<>>])}})

(***************************************************************************)
(* The receive path of LNetFrame.                                          *)
(***************************************************************************)
\* remove_fill_byte: the loop over self.received from index 1 (Python index
\* z, TLA+ position z + 1); pop(z + 1) past the end raises IndexError.
RECURSIVE RemoveFillLoop(_, _, _)
RemoveFillLoop(received, z, loop_value) ==
    IF z < loop_value
    THEN IF received[z + 1] = STR_55 \/ received[z + 1] = STR_02
         THEN IF z + 1 >= Len(received) THEN PyExc("IndexError")
              ELSE RemoveFillLoop(RemoveAt(received, z + 2), z + 1, loop_value - 1)
         ELSE RemoveFillLoop(received, z + 1, loop_value)
    ELSE PyList(received)

\* A variant whose loop starts at index 0.
remove_fill_byte_from_0(received) == RemoveFillLoop(received, 0, Len(received))

remove_fill_byte(received) == RemoveFillLoop(received, 1, Len(received))

\* A variant that sums the received checksum byte too.
_crc_check_with_last(received) == _crc_checksum(IntList(received))

\* _crc_check: the checksum of all bytes but the last (of a non-empty list).
_crc_check(received) == _crc_checksum(IntList(SubSeq(received, 1, Len(received) - 1)))

\* frame_integrity: on a mismatch the argument of the log call,
\* self._crc_checksum(self.received), sums a list of strings and raises
\* TypeError before False can be returned.
frame_integrity(received) ==
    IF received = <<>> THEN PyExc("IndexError")
    ELSE IF _crc_check(received) # Int16(received[Len(received)])
         THEN PyExc("TypeError")
         ELSE PyBool(TRUE)

\* _check_id: service id at index 3, error code at index 4.
_check_id(frm, received) ==
    IF Len(received) <= SERVICE_ID_INDEX THEN PyExc("IndexError")
    ELSE IF Int16(received[SERVICE_ID_INDEX + 1]) = frm.service_id
         THEN IF Len(received) <= ERROR_ID_INDEX THEN PyExc("IndexError")
              ELSE IF Int16(received[ERROR_ID_INDEX + 1]) = 0 THEN PyBool(TRUE)
              ELSE IF Raised(error_id(Int16(received[ERROR_ID_INDEX + 1])))
                   THEN error_id(Int16(received[ERROR_ID_INDEX + 1]))
                   ELSE PyBool(FALSE)
         ELSE PyBool(FALSE)

(***************************************************************************)
(* DeviceInfo: the attributes of the class object (FrameDeviceInfo writes  *)
(* the class attributes and returns the class itself).                     *)
(***************************************************************************)
DeviceInfoDefaults ==
    [monitorVer |-> 0, appVer |-> 0, processorID |-> PyInt(0),
     monitorDate |-> PyInt(0), monitorTime |-> PyInt(0), appDate |-> PyInt(0),
     appTime |-> PyInt(0), uc_width |-> 0, dsp_state |-> PyInt(0),
     eventType |-> 0, eventID |-> 0, tableStructAdd |-> 0]

\* hex(n): "0x" and the hex digits of n without leading zeros.
RECURSIVE HexDigits(_)
HexDigits(n) == IF n < 16 THEN <<n>> ELSE HexDigits(n \div 16) \o <<n % 16>>

\* The keys of the two tables, as the digits after "0x".
processor_ids_16_bit ==
    {<<8, 2, 1, 0>>, <<8, 2, 3, 0>>, <<0, 2, 2, 1>>, <<0, 2, 2, 2>>, <<0, 2, 2, 3>>,
     <<0, 2, 2, 4>>, <<0, 2, 2, 5>>, <<0, 2, 2, 6>>, <<0, 2, 2, 8>>, <<0, 2, 3, 1>>,
     <<0, 2, 3, 2>>, <<0, 2, 3, 3>>, <<0, 2, 3, 4>>, <<0, 2, 3, 5>>, <<0, 2, 3, 6>>,
     <<0, 2, 3, 7>>}

processor_ids_32_bit ==
    {<<8, 2, 2, 0>>, <<8, 3, 2, 0>>, <<8, 3, 1, 0>>, <<0, 2, 4, 1>>, <<0, 2, 5, 1>>}

\* The processor name is kept as the table key it was found under.
_Processor_id(received) ==
    LET value1 == Int16(received[11])
        value2 == Int16(received[12])
        result == HexDigits(value2 * 256 + value1)
    IN  IF result \in processor_ids_16_bit THEN [width |-> 2, found |-> TRUE, key |-> result]
        ELSE IF result \in processor_ids_32_bit THEN [width |-> 4, found |-> TRUE, key |-> result]
        ELSE [width |-> NoneWidth, found |-> FALSE, key |-> result]

\* int.from_bytes(..., byteorder="little") of received[lo : hi].
RECURSIVE LEInt(_, _, _)
LEInt(received, lo, hi) ==
    IF lo >= hi THEN 0
    ELSE Int16(received[lo + 1]) + 256 * LEInt(received, lo + 1, hi)

\* "".join(chr(int(x, 16))) of received[lo : hi], as the character codes.
Ascii(received, lo, hi) == PyStr(IntList(SubSeq(received, lo + 1, hi)))

DspStateText(v) ==
    CASE v = 0 -> "MONITOR"
      [] v = 1 -> "APPLICATION LOADED"
      [] v = 2 -> "IDLE"
      [] v = 3 -> "INIT"
      [] v = 4 -> "APPLICATION RUNNING - POWER OFF"
      [] v = 5 -> "APPLICATION RUNNING - POWER ON"
      [] OTHER -> "Unknown DSP State"

\* FrameDeviceInfo._deserialize: the class attributes are assigned one by
\* one, in the order of the source; reading past the end of the frame
\* raises IndexError and leaves the earlier assignments in place.
DeviceInfo_deserialize(received, cls) ==
    LET n == Len(received)
        pid == _Processor_id(received)
    IN  IF Int16(received[SERVICE_ID_INDEX + 1]) # 0 THEN [res |-> PyNone, cls |-> cls]
        ELSE [res |-> IF n > 48 THEN PyClass("DeviceInfo") ELSE PyExc("IndexError"),
              cls |->
                [appVer |-> IF n > 8 THEN LEInt(received, 7, 9) ELSE cls.appVer,
                 monitorVer |-> IF n > 8 THEN LEInt(received, 5, 7) ELSE cls.monitorVer,
                 uc_width |-> IF n > 11 THEN pid.width ELSE cls.uc_width,
                 processorID |-> IF n > 11 /\ pid.found THEN PyStr(pid.key)
                                 ELSE cls.processorID,
                 monitorDate |-> IF n > 20 THEN Ascii(received, 12, 21) ELSE cls.monitorDate,
                 monitorTime |-> IF n > 24 THEN Ascii(received, 21, 25) ELSE cls.monitorTime,
                 appDate |-> IF n > 33 THEN Ascii(received, 25, 34) ELSE cls.appDate,
                 appTime |-> IF n > 37 THEN Ascii(received, 34, 38) ELSE cls.appTime,
                 dsp_state |-> IF n > 38 THEN PyStr(DspStateText(Int16(received[39])))
                               ELSE cls.dsp_state,
                 eventType |-> IF n > 40 THEN LEInt(received, 39, 41) ELSE cls.eventType,
                 eventID |-> IF n > 44 THEN LEInt(received, 41, 45) ELSE cls.eventID,
                 tableStructAdd |-> IF n > 48 THEN LEInt(received, 45, 49)
                                    ELSE cls.tableStructAdd]]

\* The data bytes taken one position early, from the error byte on.
GetRam_deserialize_from_4(received) ==
    IF Len(received) < 2 THEN PyExc("ValueError")
    ELSE LET size_received_data == Int16(received[2])
         IN  IF size_received_data < 2 \/ size_received_data > Len(received) - 4
             THEN PyExc("ValueError")
             ELSE PyBytes(IntList(SubSeq(received, 5, 4 + size_received_data - 2)))

\* FrameGetRam._deserialize.
GetRam_deserialize(received) ==
    IF Len(received) < 2 THEN PyExc("ValueError")
    ELSE LET size_received_data == Int16(received[2])
         IN  IF size_received_data < 2 \/ size_received_data > Len(received) - 4
             THEN PyExc("ValueError")
             ELSE PyBytes(IntList(SubSeq(received, 6, 5 + size_received_data - 2)))

\* FramePutRam._deserialize and FrameSaveParameter._deserialize: the byte
\* before the checksum; a non-zero byte returns None, a zero byte returns
\* the description of code 0.
PutRam_deserialize(received) ==
    LET data_received == Int16(received[Len(received) - 1])
    IN  IF data_received # 0 THEN PyNone ELSE error_id(data_received)

\* FrameLoadParameter._deserialize(self) takes no argument, and deserialize
\* calls it with one: TypeError.
LoadParameter_deserialize(received) == PyExc("TypeError")

_deserialize(frm, received, cls) ==
    CASE frm.kind = "DeviceInfo" -> DeviceInfo_deserialize(received, cls)
      [] frm.kind = "GetRam" -> [res |-> GetRam_deserialize(received), cls |-> cls]
      [] frm.kind \in {"PutRam", "SaveParameter"} ->
           [res |-> PutRam_deserialize(received), cls |-> cls]
      [] frm.kind = "LoadParameter" ->
           [res |-> LoadParameter_deserialize(received), cls |-> cls]

(***************************************************************************)
(* LNetFrame.deserialize.  The result is [res, invoked, received, cls]:    *)
(* what the call returns or raises, whether the service parser             *)
(* (_deserialize) was called, self.received afterwards, and the DeviceInfo *)
(* class attributes afterwards.                                            *)
(***************************************************************************)
deserialize(frm, received, cls) ==
    The({IF Raised(unstuffed)
         THEN [res |-> unstuffed, invoked |-> FALSE, received |-> received, cls |-> cls]
         ELSE The({IF Raised(integrity)
                   THEN [res |-> integrity, invoked |-> FALSE,
                         received |-> unstuffed.v, cls |-> cls]
                   ELSE The({IF Raised(id_ok)
                             THEN [res |-> id_ok, invoked |-> FALSE,
                                   received |-> unstuffed.v, cls |-> cls]
                             ELSE IF ~id_ok.v
                             THEN [res |-> PyNone, invoked |-> FALSE,
                                   received |-> unstuffed.v, cls |-> cls]
                             ELSE The({[res |-> parsed.res, invoked |-> TRUE,
                                        received |-> unstuffed.v, cls |-> parsed.cls] :
                                       parsed \in {_deserialize(frm, unstuffed.v, cls)}}) :
                             id_ok \in {_check_id(frm, unstuffed.v)}}) :
                   integrity \in {frame_integrity(unstuffed.v)}}) :
         unstuffed \in {remove_fill_byte(received)}})

(***************************************************************************)
(* The conditions deserialize tests on a received frame, in its order:     *)
(* the fill bytes can be removed, the last byte is (or is not) the         *)
(* checksum of the bytes before it, the byte at index 3 is the service id  *)
(* of the frame object and the byte at index 4 is 0.                       *)
(***************************************************************************)
ChecksumMismatch(received) ==
    \E u \in {remove_fill_byte(received)} :
        /\ ~Raised(u) /\ u.v # <<>>
        /\ _crc_check(u.v) # Int16(u.v[Len(u.v)])

ChecksumValid(received) ==
    \E u \in {remove_fill_byte(received)} :
        /\ ~Raised(u) /\ u.v # <<>>
        /\ _crc_check(u.v) = Int16(u.v[Len(u.v)])

ServiceIdMatches(service_id, received) ==
    \E u \in {remove_fill_byte(received)} :
        /\ ~Raised(u) /\ Len(u.v) > SERVICE_ID_INDEX
        /\ Int16(u.v[SERVICE_ID_INDEX + 1]) = service_id

ServiceIdDiffers(service_id, received) ==
    \E u \in {remove_fill_byte(received)} :
        /\ ~Raised(u) /\ Len(u.v) > SERVICE_ID_INDEX
        /\ Int16(u.v[SERVICE_ID_INDEX + 1]) # service_id

\* The byte at index 4 (the set is empty when there is none).
ErrorCode(received) ==
    {Int16(u.v[ERROR_ID_INDEX + 1]) :
        u \in {x \in {remove_fill_byte(received)} : ~Raised(x) /\ Len(x.v) > ERROR_ID_INDEX}}

(***************************************************************************)
(* State.                                                                  *)
(*   device_info, load_parameter   the attributes of the LNet instance     *)
(*   DeviceInfo                    the attributes of the DeviceInfo class  *)
(*   write_count, read_count, concurrent_access_count,                     *)
(*   max_concurrent_access         the transport, as the tests observe it  *)
(*   pc, op, frame, tmp, resp, out each thread: its position inside its    *)
(*                                 call, the operation, the request frame, *)
(*                                 the counter value it loaded for "+= 1", *)
(*                                 what the transport's read gave it and   *)
(*                                 the outcome of the call                 *)
(*   calls, last_op, last_out, io  the sequential caller: number of calls  *)
(*                                 made, the last operation, its outcome   *)
(*                                 and the transport events of that call   *)
(*   frm, rx, tx, dres             a frame object, a received frame, the   *)
(*                                 result of serialize and of deserialize  *)
(*   produced, serialize_calls     the DATA bytes self.data held after     *)
(*                                 _get_data in the last serialize, and    *)
(*                                 the number of serialize calls so far    *)
(*   module, setup, ret, call      a ScopeSetup object: the module its     *)
(*                                 class comes from, its attributes, and   *)
(*                                 the last method call with its result    *)
(*   byte_list, checksum, stuffed, unstuffed                               *)
(*                                 a list of bytes and the results of      *)
(*                                 _crc_checksum, of _skip_reserved_bytes  *)
(*                                 and of remove_fill_byte on it           *)
(***************************************************************************)
VARIABLES device_info, load_parameter, DeviceInfo,
          write_count, read_count, concurrent_access_count, max_concurrent_access,
          pc, op, frame, tmp, resp, out,
          calls, last_op, last_out, io,
          frm, rx, tx, dres, produced, serialize_calls,
          byte_list, checksum, stuffed, unstuffed,
          module, setup, ret, call

lnet_vars == <<device_info, load_parameter, DeviceInfo>>
transport_vars ==
    <<write_count, read_count, concurrent_access_count, max_concurrent_access>>
thread_vars == <<pc, op, frame, tmp, resp, out>>
caller_vars == <<calls, last_op, last_out, io>>
codec_vars == <<frm, rx, tx, dres, produced, serialize_calls>>
bytes_vars == <<byte_list, checksum, stuffed, unstuffed>>
scope_vars == <<module, setup, ret, call>>
vars ==
    <<lnet_vars, transport_vars, thread_vars, caller_vars, codec_vars, bytes_vars,
      scope_vars>>

Threads == 1..NumThreads
NoResult == [t |-> "not called"]

\* LNet.__init__(interface, handshake=False) and a fresh transport.
LNetInit ==
    /\ device_info = PyNone
    /\ load_parameter = PyNone
    /\ DeviceInfo = DeviceInfoDefaults

TransportInit ==
    /\ write_count = 0
    /\ read_count = 0
    /\ concurrent_access_count = 0
    /\ max_concurrent_access = 0

ThreadsIdle ==
    /\ pc = [t \in Threads |-> "start"]
    /\ op = [t \in Threads |-> "none"]
    /\ frame = [t \in Threads |-> PyNone]
    /\ tmp = [t \in Threads |-> 0]
    /\ resp = [t \in Threads |-> PyNone]
    /\ out = [t \in Threads |-> NoResult]

CallerIdle ==
    /\ calls = 0
    /\ last_op = "none"
    /\ last_out = NoResult
    /\ io = <<>>

CodecIdle ==
    /\ frm = FrameDeviceInfo
    /\ rx = <<>>
    /\ tx = NoResult
    /\ dres = NoResult
    /\ produced = <<>>
    /\ serialize_calls = 0

BytesIdle ==
    /\ byte_list = <<>>
    /\ checksum = NoResult
    /\ stuffed = NoResult
    /\ unstuffed = NoResult

NoCall == [op |-> "none"]

\* ScopeSetup()
ScopeIdle ==
    /\ module = "frame_save_parameter"
    /\ setup = ScopeSetup
    /\ ret = NoResult
    /\ call = NoCall

(***************************************************************************)
(* What the device sends: [SYN, SIZE, NODE, DATA..., CRC] with the fill    *)
(* bytes inserted, read by the transport as one hex string per byte.  The  *)
(* line may corrupt the checksum byte or cut the frame short, and a device *)
(* may declare a SIZE one less ("short") or one more ("long") than the     *)
(* DATA it sends.                                                          *)
(***************************************************************************)
RECURSIVE SeqsUpTo(_, _)
SeqsUpTo(S, n) ==
    IF n = 0 THEN {<<>>}
    ELSE LET shorter == SeqsUpTo(S, n - 1)
         IN  shorter \cup {Append(q, x) : q \in {r \in shorter : Len(r) = n - 1}, x \in S}

DeviceFrame(data, line) ==
    LET size == CASE line = "short" -> Len(data) - 1
                  [] line = "long" -> Len(data) + 1
                  [] OTHER -> Len(data)
        framed == <<SYN, size, NODE>> \o data
        crc == _crc_checksum(framed)
        sent == _skip_reserved_bytes(framed \o
                    <<IF line = "badcrc" THEN (crc + 1) % 256 ELSE crc>>)
    IN  HexList(IF line = "cut" THEN SubSeq(sent, 1, Len(sent) - 2) ELSE sent)

Lines == {"ok", "badcrc", "cut"}
WrongSizes == {"short", "long"}
ServiceIds ==
    {ID_DEVICE_INFO, ID_GET_RAM, ID_PUT_RAM, ID_LOAD_PARAMETER, ID_SAVE_PARAMETER}
ErrorBytes == {0, 64, 99}
PayloadBytes == {0, 2, 85}

ResponseData ==
    {<<>>} \cup {<<sid>> : sid \in ServiceIds}
    \cup {<<sid, err>> \o payload :
            sid \in ServiceIds, err \in ErrorBytes, payload \in SeqsUpTo(PayloadBytes, MaxData)}

\* A complete DeviceInfo response (46 data bytes) for a processor id.
DeviceInfoData(pid_low, pid_high) ==
    <<ID_DEVICE_INFO, 0, 5, 0, 1, 0, 0, pid_low, pid_high>>
    \o [i \in 1..26 |-> 48 + (i % 10)]
    \o <<4, 1, 0, 1, 0, 0, 0, 0, 16, 0, 0>>

ProcessorIdBytes == {<<16, 130>>, <<32, 130>>, <<33, 2>>, <<65, 2>>, <<0, 0>>}

Received ==
    {DeviceFrame(data, line) : data \in ResponseData, line \in Lines}
    \cup {DeviceFrame(DeviceInfoData(p[1], p[2]), line) : p \in ProcessorIdBytes, line \in Lines}
    \cup {DeviceFrame(data, line) : data \in ResponseData \ {<<>>}, line \in WrongSizes}

(***************************************************************************)
(* The codec on its own: a frame object built by one of the five           *)
(* constructors and a received frame; serialize and deserialize are        *)
(* applied to them.                                                        *)
(***************************************************************************)
Addresses == {4096, 597}
Values == {<<0, 1>>, <<85, 2>>}
OneChannel == [ScopeSetup EXCEPT !.channels = <<ScopeChannel("a", 4096, 2, TRUE)>>]
WithTrigger ==
    [OneChannel EXCEPT !.scope_trigger.channel = ScopeChannel("a", 4096, 2, TRUE)]
ScopeSetups == {ScopeSetup, OneChannel, WithTrigger}

\* PutRam frames whose DATA has 85 (0x55) and 2 bytes: SIZE is a reserved value.
LongValue == [i \in 1..81 |-> 0]
ReservedSizeFrames == {FramePutRam(4096, 81, 2, LongValue), FramePutRam(0, 0, 0, <<>>)}

CodecFrames ==
    {FrameDeviceInfo, FrameLoadParameter}
    \cup ReservedSizeFrames
    \cup {FrameGetRam(a, 2, 2, w) : a \in Addresses, w \in {2, 4}}
    \cup {FramePutRam(a, 2, w, v) : a \in Addresses, w \in {2, 4}, v \in Values}
    \cup {FrameSaveParameter(c) : c \in ScopeSetups}

InitCodec ==
    /\ LNetInit /\ TransportInit /\ ThreadsIdle /\ CallerIdle /\ BytesIdle /\ ScopeIdle
    /\ frm \in CodecFrames
    /\ rx \in Received
    /\ tx = NoResult
    /\ dres = NoResult
    /\ produced = <<>>
    /\ serialize_calls = 0

\* One more call of serialize on the same frame object.
CodecSerialize ==
    /\ serialize_calls < MaxSerialize
    /\ serialize_calls' = serialize_calls + 1
    /\ \E s \in {serialize(frm)} :
           /\ tx' = s.res
           /\ frm' = s.frm
    /\ produced' = _get_data([frm EXCEPT !.data = <<>>]).frm.data
    /\ UNCHANGED <<rx, dres, lnet_vars, transport_vars, thread_vars, caller_vars,
                   bytes_vars, scope_vars>>

CodecDeserialize ==
    /\ dres = NoResult
    /\ \E d \in {deserialize(frm, rx, DeviceInfo)} :
           /\ dres' = [res |-> d.res, invoked |-> d.invoked, received |-> d.received]
           /\ DeviceInfo' = d.cls
    /\ UNCHANGED <<frm, rx, tx, produced, serialize_calls, device_info, load_parameter,
                   transport_vars, thread_vars, caller_vars, bytes_vars, scope_vars>>

\* The bytes serialize returned come back as a received frame: one two-digit
\* hex string per byte, fill bytes included.
CodecLoopback ==
    /\ tx.t = "bytes"
    /\ dres = NoResult
    /\ rx # HexList(tx.v)
    /\ rx' = HexList(tx.v)
    /\ UNCHANGED <<frm, tx, dres, produced, serialize_calls, lnet_vars, transport_vars,
                   thread_vars, caller_vars, bytes_vars, scope_vars>>

NextCodec == CodecSerialize \/ CodecDeserialize \/ CodecLoopback

SpecCodec == InitCodec /\ [][NextCodec]_vars

(***************************************************************************)
(* The byte-level functions of the codec on their own: a list of bytes,    *)
(* its checksum, the list with fill bytes inserted, and what               *)
(* remove_fill_byte makes of that list once it is received (one hex string *)
(* per byte).                                                              *)
(***************************************************************************)
ByteValues == {0, 1, 2, 83, 85, 170, 253, 255}

InitBytes ==
    /\ LNetInit /\ TransportInit /\ ThreadsIdle /\ CallerIdle /\ CodecIdle /\ ScopeIdle
    /\ byte_list \in SeqsUpTo(ByteValues, MaxLen)
    /\ checksum = NoResult
    /\ stuffed = NoResult
    /\ unstuffed = NoResult

Checksum ==
    /\ checksum = NoResult
    /\ checksum' = PyInt(_crc_checksum(byte_list))
    /\ UNCHANGED <<byte_list, stuffed, unstuffed, lnet_vars, transport_vars, thread_vars,
                   caller_vars, codec_vars, scope_vars>>

Stuff ==
    /\ stuffed = NoResult
    /\ stuffed' = PyList(_skip_reserved_bytes(byte_list))
    /\ UNCHANGED <<byte_list, checksum, unstuffed, lnet_vars, transport_vars, thread_vars,
                   caller_vars, codec_vars, scope_vars>>

Unstuff ==
    /\ stuffed # NoResult
    /\ unstuffed = NoResult
    /\ unstuffed' = remove_fill_byte(HexList(stuffed.v))
    /\ UNCHANGED <<byte_list, checksum, stuffed, lnet_vars, transport_vars, thread_vars,
                   caller_vars, codec_vars, scope_vars>>

NextBytes == Checksum \/ Stuff \/ Unstuff

SpecBytes == InitBytes /\ [][NextBytes]_vars

(***************************************************************************)
(* A ScopeSetup object of either module and the calls that change it.      *)
(* The caller uses the channel names of ChannelNameList; a name that is    *)
(* not in the mapping is added only if it comes after the names that are   *)
(* (so the mapping stays in the order of the list), and binds the trigger  *)
(* to the channels named in TriggerNames only.                             *)
(***************************************************************************)
ChannelNameList == <<"a", "b", "c", "d", "e", "f", "g", "h", "i", "j", "k", "l">>
ChannelNames == {ChannelNameList[i] : i \in 1..MaxNames}
TriggerNames == {"a", "b"}
NameIndex(channel_name) == CHOOSE i \in 1..Len(ChannelNameList) : ChannelNameList[i] = channel_name

\* The channel object the caller uses for a name: "b" is 4 bytes wide, "c"
\* is 1 byte wide and disabled, the others are 2 bytes wide.
ChannelOf(channel_name) ==
    ScopeChannel(channel_name, 4096 + NameIndex(channel_name),
                 CASE channel_name = "b" -> 4 [] channel_name = "c" -> 1 [] OTHER -> 2,
                 channel_name # "c")

\* Another ScopeChannel object of the same name, as a caller builds one to
\* add a name a second time.
AnotherChannelOf(channel_name) ==
    [ChannelOf(channel_name) EXCEPT !.source_location = @ + 256]

InOrder(channel_name) ==
    \/ HasChannel(setup, channel_name)
    \/ Len(setup.channels) < 2 /\ channel_name \in {"a", "b", "c"}
    \/ \A i \in 1..Len(setup.channels) :
          NameIndex(setup.channels[i].name) < NameIndex(channel_name)

InitScope ==
    /\ LNetInit /\ TransportInit /\ ThreadsIdle /\ CallerIdle /\ CodecIdle /\ BytesIdle
    /\ module \in {"frame_save_parameter", "scope"}
    /\ setup = ScopeSetup
    /\ ret = NoResult
    /\ call = NoCall

\* The bookkeeping of one call on the ScopeSetup object.
Called(c, r) ==
    /\ call' = c
    /\ ret' = r.res
    /\ setup' = r.setup
    /\ UNCHANGED <<module, lnet_vars, transport_vars, thread_vars, caller_vars,
                   codec_vars, bytes_vars>>

AddChannel ==
    \E channel_name \in ChannelNames, trigger \in BOOLEAN :
        /\ InOrder(channel_name)
        /\ trigger => channel_name \in TriggerNames
        /\ \E channel \in {IF HasChannel(setup, channel_name)
                           THEN AnotherChannelOf(channel_name)
                           ELSE ChannelOf(channel_name)} :
               Called([op |-> "add_channel", name |-> channel_name, trigger |-> trigger],
                      IF module = "scope"
                      THEN scope_add_channel(setup, channel, trigger)
                      ELSE add_channel(setup, channel, trigger))

RemoveChannel ==
    \E channel_name \in ChannelNames :
        \E r \in {IF module = "scope" THEN scope_remove_channel(setup, channel_name)
                  ELSE remove_channel(setup, channel_name)} :
            Called([op |-> "remove_channel", name |-> channel_name], r)

\* set_trigger with a channel of the mapping and non-default settings.
SetTrigger ==
    \E i \in 1..Len(setup.channels) :
        /\ setup.channels[i].name \in TriggerNames
        /\ Called([op |-> "set_trigger", name |-> setup.channels[i].name],
                  IF module = "scope"
                  THEN scope_set_trigger(setup,
                           [channel |-> setup.channels[i], trigger_level |-> 5,
                            trigger_delay |-> 1, trigger_edge |-> 0, trigger_mode |-> 1])
                  ELSE set_trigger(setup, setup.channels[i], 5, 1, 1, 0))

ResetTrigger ==
    \E r \in {reset_trigger(setup)} : Called([op |-> "reset_trigger"], r)

\* get_buffer does not change the ScopeSetup.
GetBuffer ==
    \E r \in {IF module = "scope" THEN scope_get_buffer(setup) ELSE get_buffer(setup)} :
        Called([op |-> "get_buffer"], [res |-> r, setup |-> setup])

NextScope == AddChannel \/ RemoveChannel \/ SetTrigger \/ ResetTrigger \/ GetBuffer

SpecScope == InitScope /\ [][NextScope]_vars

(***************************************************************************)
(* The orchestrator, lnet.py.  The transport is external: each call of     *)
(* write or read either returns or raises an error of the transport        *)
(* (fault "write" or "read"), and read returns the frame the device sent.  *)
(* An operation is a function of the LNet state and of what the transport  *)
(* does; its result is [res, io, device_info, load_parameter, cls]: what   *)
(* the call returns or raises, the transport calls it made, and the state  *)
(* afterwards.                                                             *)
(***************************************************************************)
Faults == {"none", "write", "read"}
WriteEvent(data, raised) == [ev |-> "write", data |-> data, raised |-> raised]
ReadEvent(result) == [ev |-> "read", res |-> result]

\* A variant that reads the response before it writes the request.
_read_data_read_first(data, fault, response) ==
    IF fault = "read"
    THEN [res |-> PyExc("TransportError"), io |-> <<ReadEvent(PyExc("TransportError"))>>]
    ELSE IF fault = "write"
    THEN [res |-> PyExc("TransportError"),
          io |-> <<ReadEvent(PyList(response)), WriteEvent(data, TRUE)>>]
    ELSE [res |-> PyList(response),
          io |-> <<ReadEvent(PyList(response)), WriteEvent(data, FALSE)>>]

\* LNet._read_data: interface.write(frame), then interface.read().
_read_data(data, fault, response) ==
    IF fault = "write"
    THEN [res |-> PyExc("TransportError"), io |-> <<WriteEvent(data, TRUE)>>]
    ELSE IF fault = "read"
    THEN [res |-> PyExc("TransportError"),
          io |-> <<WriteEvent(data, FALSE), ReadEvent(PyExc("TransportError"))>>]
    ELSE [res |-> PyList(response),
          io |-> <<WriteEvent(data, FALSE), ReadEvent(PyList(response))>>]

\* serialize, _read_data, deserialize: the body shared by get_ram,
\* get_ram_array, put_ram and load_parameters.
Exchange(f, fault, response, cls) ==
    The({IF Raised(s.res) THEN [res |-> s.res, io |-> <<>>, cls |-> cls]
         ELSE The({IF Raised(x.res) THEN [res |-> x.res, io |-> x.io, cls |-> cls]
                   ELSE The({[res |-> d.res, io |-> x.io, cls |-> d.cls] :
                             d \in {deserialize(s.frm, x.res.v, cls)}}) :
                   x \in {_read_data(s.res.v, fault, response)}}) :
         s \in {serialize(f)}})

\* self.device_info.uc_width: AttributeError on None.  "RuntimeError(...)"
\* in the guard builds an exception and drops it, so the guard does nothing.
get_ram_array(address, bytes_to_read, data_type, di, cls, fault, response) ==
    IF di = PyNone THEN [res |-> PyExc("AttributeError"), io |-> <<>>, cls |-> cls]
    ELSE Exchange(FrameGetRam(address, bytes_to_read, data_type, cls.uc_width),
                  fault, response, cls)

get_ram(address, data_type, di, cls, fault, response) ==
    get_ram_array(address, data_type, data_type, di, cls, fault, response)

put_ram(address, size, value, di, cls, fault, response) ==
    IF di = PyNone THEN [res |-> PyExc("AttributeError"), io |-> <<>>, cls |-> cls]
    ELSE Exchange(FramePutRam(address, size, cls.uc_width, value), fault, response, cls)

load_parameters(di, cls, fault, response) ==
    Exchange(FrameLoadParameter, fault, response, cls)

\* scope_save_parameter returns the raw response; it does not deserialize.
scope_save_parameter(scope_config, di, cls, fault, response) ==
    The({IF Raised(s.res) THEN [res |-> s.res, io |-> <<>>, cls |-> cls]
         ELSE The({[res |-> x.res, io |-> x.io, cls |-> cls] :
                   x \in {_read_data(s.res.v, fault, response)}}) :
         s \in {serialize(FrameSaveParameter(scope_config))}})

\* A variant without the test of self.device_info: every call asks the device.
interface_handshake_uncached(di, lp, cls, fault1, response1, fault2, response2) ==
    The({IF Raised(first.res)
         THEN [res |-> PyNone, io |-> first.io, device_info |-> di,
               load_parameter |-> lp, cls |-> first.cls]
         ELSE [res |-> first.res, io |-> first.io, device_info |-> first.res,
               load_parameter |-> lp, cls |-> first.cls] :
         first \in {Exchange(FrameDeviceInfo, fault1, response1, cls)}})

\* interface_handshake: every exception inside the try block is logged and
\* the method then falls off its end, returning None
\* ("RuntimeError(...)" is built, not raised).
interface_handshake(di, lp, cls, fault1, response1, fault2, response2) ==
    IF di # PyNone
    THEN [res |-> di, io |-> <<>>, device_info |-> di, load_parameter |-> lp, cls |-> cls]
    ELSE The({IF Raised(first.res)
              THEN [res |-> PyNone, io |-> first.io, device_info |-> di,
                    load_parameter |-> lp, cls |-> first.cls]
              ELSE The({IF Raised(second.res)
                        THEN [res |-> PyNone, io |-> first.io \o second.io,
                              device_info |-> first.res, load_parameter |-> lp,
                              cls |-> second.cls]
                        ELSE [res |-> first.res, io |-> first.io \o second.io,
                              device_info |-> first.res, load_parameter |-> second.res,
                              cls |-> second.cls] :
                        second \in {load_parameters(first.res, first.cls, fault2, response2)}}) :
              first \in {Exchange(FrameDeviceInfo, fault1, response1, cls)}})

(***************************************************************************)
(* One caller using an LNet instance built with handshake=False, one call  *)
(* after the other; each action is one call of a public method.            *)
(***************************************************************************)
ResponsesData ==
    {DeviceInfoData(16, 130), DeviceInfoData(32, 130), DeviceInfoData(33, 2),
     <<ID_DEVICE_INFO, 0>>, <<ID_DEVICE_INFO, 64>>, <<ID_GET_RAM, 0, 1, 2>>,
     <<ID_PUT_RAM, 0>>, <<ID_LOAD_PARAMETER, 0, 0>>, <<ID_LOAD_PARAMETER, 64>>,
     <<ID_SAVE_PARAMETER, 0>>}

Responses ==
    {DeviceFrame(data, "ok") : data \in ResponsesData}
    \cup {DeviceFrame(DeviceInfoData(16, 130), "badcrc"),
          DeviceFrame(<<ID_LOAD_PARAMETER, 0, 0>>, "badcrc")}

\* What the device may answer to the LoadParameter request of the handshake.
LoadResponses ==
    {DeviceFrame(<<ID_LOAD_PARAMETER, 0, 0>>, "ok"), DeviceFrame(<<ID_LOAD_PARAMETER, 64>>, "ok"),
     DeviceFrame(<<ID_GET_RAM, 0, 1, 2>>, "ok"),
     DeviceFrame(<<ID_LOAD_PARAMETER, 0, 0>>, "badcrc")}

\* The bookkeeping of one call of a public method.
Record(name, r) ==
    /\ calls < MaxCalls
    /\ calls' = calls + 1
    /\ last_op' = name
    /\ last_out' = r.res
    /\ io' = r.io
    /\ DeviceInfo' = r.cls
    /\ UNCHANGED <<transport_vars, thread_vars, codec_vars, bytes_vars, scope_vars>>

Handshake ==
    \E fault1 \in Faults, fault2 \in Faults, response1 \in Responses,
       response2 \in LoadResponses :
        \E r \in {interface_handshake(device_info, load_parameter, DeviceInfo,
                                       fault1, response1, fault2, response2)} :
            /\ Record("interface_handshake", r)
            /\ device_info' = r.device_info
            /\ load_parameter' = r.load_parameter

GetRam ==
    \E address \in Addresses, fault \in Faults, response \in Responses :
        \E r \in {get_ram(address, 2, device_info, DeviceInfo, fault, response)} :
            /\ Record("get_ram", r)
            /\ UNCHANGED <<device_info, load_parameter>>

GetRamArray ==
    \E address \in Addresses, fault \in Faults, response \in Responses :
        \E r \in {get_ram_array(address, 4, 2, device_info, DeviceInfo, fault, response)} :
            /\ Record("get_ram_array", r)
            /\ UNCHANGED <<device_info, load_parameter>>

PutRam ==
    \E address \in Addresses, value \in Values, fault \in Faults, response \in Responses :
        \E r \in {put_ram(address, 2, value, device_info, DeviceInfo, fault, response)} :
            /\ Record("put_ram", r)
            /\ UNCHANGED <<device_info, load_parameter>>

LoadParameters ==
    \E fault \in Faults, response \in Responses :
        \E r \in {load_parameters(device_info, DeviceInfo, fault, response)} :
            /\ Record("load_parameters", r)
            /\ UNCHANGED <<device_info, load_parameter>>

ScopeSaveParameter ==
    \E scope_config \in ScopeSetups, fault \in Faults, response \in Responses :
        \E r \in {scope_save_parameter(scope_config, device_info, DeviceInfo,
                                        fault, response)} :
            /\ Record("scope_save_parameter", r)
            /\ UNCHANGED <<device_info, load_parameter>>

\* LNet(interface) for a second transport: __init__ sets the new
\* instance's device_info and load_parameter to None and calls
\* interface_handshake.  The new instance has attributes of its own; the
\* parser assigns to the attributes of the DeviceInfo class, which both
\* instances refer to.
OtherLNet ==
    \E response1 \in Responses, response2 \in LoadResponses :
        \E r \in {interface_handshake(PyNone, PyNone, DeviceInfo,
                                       "none", response1, "none", response2)} :
            /\ Record("LNet", r)
            /\ UNCHANGED <<device_info, load_parameter>>

Init ==
    /\ LNetInit /\ TransportInit /\ ThreadsIdle /\ CallerIdle /\ CodecIdle /\ BytesIdle /\ ScopeIdle

Next ==
    \/ Handshake
    \/ GetRam
    \/ GetRamArray
    \/ PutRam
    \/ LoadParameters
    \/ ScopeSaveParameter
    \/ OtherLNet

Spec == Init /\ [][Next]_vars

(***************************************************************************)
(* Threads sharing one LNet instance whose device_info is already set (as  *)
(* the threading tests set it).  Each thread makes one call: the raw       *)
(* transaction _read_data, get_ram or put_ram.  The transport is the       *)
(* MockInterface of the tests: write and read register the caller under    *)
(* access_lock, sleep, count the call with "self.write_count += 1"         *)
(* (a load and a store, outside access_lock) and unregister the caller.    *)
(* A transport call may also raise instead of returning.                   *)
(*   pc: start, in_write, write_counting, written, in_read,                *)
(*       read_counting, done                                               *)
(***************************************************************************)
ThreadOps == {"_read_data", "get_ram", "put_ram"}
RawFrame == <<116, 101, 115, 116>>

ThreadResponses ==
    {DeviceFrame(<<ID_GET_RAM, 0, 1, 2>>, "ok"), DeviceFrame(<<ID_PUT_RAM, 0>>, "ok"),
     DeviceFrame(<<ID_GET_RAM, 64>>, "ok")}

\* The frame object an operation builds before the transaction.
RequestFrame(o, cls) ==
    IF o = "get_ram" THEN FrameGetRam(4096, 4, 4, cls.uc_width)
    ELSE FramePutRam(8192, 4, cls.uc_width, <<0, 1, 2, 3>>)

\* The bytes handed to interface.write (or the exception raised before).
Request(o, cls) ==
    IF o = "_read_data" THEN PyBytes(RawFrame) ELSE serialize(RequestFrame(o, cls)).res

\* What the caller gets once the transport's read has returned response:
\* _read_data returns it as it is, get_ram and put_ram deserialize it.
Finish(o, response, cls) ==
    IF o = "_read_data" THEN PyList(response)
    ELSE deserialize(serialize(RequestFrame(o, cls)).frm, response, cls).res

\* A variant that catches the transport's exception and returns None.
Swallow(o, exc) == PyNone

\* What the caller gets when the transport raises: nothing on the way
\* catches the exception.
Propagate(o, exc) == exc

\* The first "with self.access_lock" block of write and of read.
Enter ==
    /\ concurrent_access_count' = concurrent_access_count + 1
    /\ max_concurrent_access' =
          IF concurrent_access_count + 1 > max_concurrent_access
          THEN concurrent_access_count + 1 ELSE max_concurrent_access

\* The second "with self.access_lock" block of write and of read.
Leave == concurrent_access_count' = concurrent_access_count - 1

InitThreads ==
    /\ device_info = PyClass("DeviceInfo")
    /\ load_parameter = PyNone
    /\ DeviceInfo \in {[DeviceInfoDefaults EXCEPT !.uc_width = w] : w \in {2, 4}}
    /\ TransportInit /\ ThreadsIdle /\ CallerIdle /\ CodecIdle /\ BytesIdle /\ ScopeIdle

\* The thread calls the operation: the request is built and
\* interface.write(frame) is entered.
Call(t, o) ==
    /\ pc[t] = "start"
    /\ op' = [op EXCEPT ![t] = o]
    /\ \E request \in {Request(o, DeviceInfo)} :
          IF Raised(request)
          THEN /\ pc' = [pc EXCEPT ![t] = "done"]
               /\ out' = [out EXCEPT ![t] = request]
               /\ UNCHANGED <<frame, transport_vars>>
          ELSE /\ pc' = [pc EXCEPT ![t] = "in_write"]
               /\ frame' = [frame EXCEPT ![t] = request]
               /\ Enter
               /\ UNCHANGED <<out, write_count, read_count>>
    /\ UNCHANGED <<tmp, resp, lnet_vars, caller_vars, codec_vars, bytes_vars, scope_vars>>

\* write: after the sleep, the load of "self.write_count += 1".
WriteCount(t) ==
    /\ pc[t] = "in_write"
    /\ pc' = [pc EXCEPT ![t] = "write_counting"]
    /\ tmp' = [tmp EXCEPT ![t] = write_count]
    /\ UNCHANGED <<op, frame, resp, out, transport_vars, lnet_vars, caller_vars, codec_vars,
                   bytes_vars, scope_vars>>

\* write: the store of "self.write_count += 1", then the caller is
\* unregistered and write returns.
WriteReturn(t) ==
    /\ pc[t] = "write_counting"
    /\ pc' = [pc EXCEPT ![t] = "written"]
    /\ write_count' = tmp[t] + 1
    /\ Leave
    /\ UNCHANGED <<op, frame, tmp, resp, out, read_count, max_concurrent_access,
                   lnet_vars, caller_vars, codec_vars,
                   bytes_vars, scope_vars>>

WriteRaise(t) ==
    /\ pc[t] = "in_write"
    /\ pc' = [pc EXCEPT ![t] = "done"]
    /\ resp' = [resp EXCEPT ![t] = PyExc("TransportError")]
    /\ out' = [out EXCEPT ![t] = Propagate(op[t], PyExc("TransportError"))]
    /\ Leave
    /\ UNCHANGED <<op, frame, tmp, write_count, read_count, max_concurrent_access,
                   lnet_vars, caller_vars, codec_vars,
                   bytes_vars, scope_vars>>

\* _read_data goes on to interface.read().
ReadEnter(t) ==
    /\ pc[t] = "written"
    /\ pc' = [pc EXCEPT ![t] = "in_read"]
    /\ Enter
    /\ UNCHANGED <<op, frame, tmp, resp, out, write_count, read_count,
                   lnet_vars, caller_vars, codec_vars,
                   bytes_vars, scope_vars>>

\* read: after the sleep, the load of "self.read_count += 1".
ReadCount(t) ==
    /\ pc[t] = "in_read"
    /\ pc' = [pc EXCEPT ![t] = "read_counting"]
    /\ tmp' = [tmp EXCEPT ![t] = read_count]
    /\ UNCHANGED <<op, frame, resp, out, transport_vars, lnet_vars, caller_vars, codec_vars,
                   bytes_vars, scope_vars>>

\* read: the store of "self.read_count += 1", the caller is unregistered,
\* read returns the response and the operation finishes with it.
ReadReturn(t, response) ==
    /\ pc[t] = "read_counting"
    /\ pc' = [pc EXCEPT ![t] = "done"]
    /\ read_count' = tmp[t] + 1
    /\ Leave
    /\ resp' = [resp EXCEPT ![t] = PyList(response)]
    /\ out' = [out EXCEPT ![t] = Finish(op[t], response, DeviceInfo)]
    /\ UNCHANGED <<op, frame, tmp, write_count, max_concurrent_access,
                   lnet_vars, caller_vars, codec_vars,
                   bytes_vars, scope_vars>>

ReadRaise(t) ==
    /\ pc[t] = "in_read"
    /\ pc' = [pc EXCEPT ![t] = "done"]
    /\ resp' = [resp EXCEPT ![t] = PyExc("TransportError")]
    /\ out' = [out EXCEPT ![t] = Propagate(op[t], PyExc("TransportError"))]
    /\ Leave
    /\ UNCHANGED <<op, frame, tmp, write_count, read_count, max_concurrent_access,
                   lnet_vars, caller_vars, codec_vars,
                   bytes_vars, scope_vars>>

NextThreads ==
    \/ \E t \in Threads : \E o \in ThreadOps : Call(t, o)
    \/ \E t \in Threads : WriteCount(t)
    \/ \E t \in Threads : WriteReturn(t)
    \/ \E t \in Threads : WriteRaise(t)
    \/ \E t \in Threads : ReadEnter(t)
    \/ \E t \in Threads : ReadCount(t)
    \/ \E t \in Threads : \E response \in ThreadResponses : ReadReturn(t, response)
    \/ \E t \in Threads : ReadRaise(t)

SpecThreads == InitThreads /\ [][NextThreads]_vars

(***************************************************************************)
(* Properties.                                                             *)
(***************************************************************************)
\* A thread is inside its write-then-read transaction: from the start of
\* its transport write to the end of its transport read.
InTransaction(t) ==
    pc[t] \in {"in_write", "write_counting", "written", "in_read", "read_counting"}

AllDone == \A t \in Threads : pc[t] = "done"

\* Every transport call of every thread has returned.
NoFault == \A t \in Threads : resp[t].t = "list"

\* The next step of a thread whose transport calls return.
Run(t) ==
    \/ \E o \in ThreadOps : Call(t, o)
    \/ WriteCount(t)
    \/ WriteReturn(t)
    \/ ReadEnter(t)
    \/ ReadCount(t)
    \/ \E response \in ThreadResponses : ReadReturn(t, response)

\* C1: the write-then-read transaction is atomic: while one thread is
\* between the start of its transport write and the end of its transport
\* read, no other thread is inside a transport write or read, or between
\* the two.
C1_TransactionAtomic ==
    \A t \in Threads : \A u \in Threads :
        InTransaction(t) /\ InTransaction(u) => t = u

\* Two transactions interleave: thread 2 starts its write between the write
\* and the read of thread 1.
C1_Interleaved == pc[1] = "written" /\ pc[2] = "in_write"

\* C2: the number of callers simultaneously inside the transport's write()
\* or read() never exceeds 1.
C2_MaxConcurrentOne == max_concurrent_access <= 1

\* Every thread is inside a transport call at the same moment.
C2_AllInside == concurrent_access_count = NumThreads

\* C3: once the K threads have completed their transactions, with a
\* transport whose write and read always return, the transport has recorded
\* exactly K writes and K reads.
C3_ExactCounts ==
    AllDone /\ NoFault => write_count = NumThreads /\ read_count = NumThreads

\* All transactions completed and the transport recorded fewer writes than
\* were made.
C3_LostWrite == AllDone /\ NoFault /\ write_count < NumThreads

\* C4: when a transport call raises inside a transaction the error reaches
\* the caller, and no other transaction is blocked by it: every other
\* thread can take its next step, and a raw transaction whose transport
\* calls return gives its caller the transport's response.
C4_ErrorPropagatesAccessReleased ==
    \A t \in Threads :
        /\ pc[t] = "done" /\ Raised(resp[t]) => out[t] = resp[t]
        /\ \A u \in Threads :
              pc[u] = "done" /\ Raised(resp[u]) =>
                  /\ pc[t] # "done" => ENABLED Run(t)
                  /\ pc[t] = "done" /\ op[t] = "_read_data" /\ ~Raised(resp[t])
                        => out[t] = resp[t]

\* The transaction of thread 1 failed with the transport's error and the raw
\* transaction of thread 2 returned the response.
C4_FailedThenCompleted ==
    /\ pc[1] = "done" /\ out[1] = PyExc("TransportError")
    /\ pc[2] = "done" /\ op[2] = "_read_data" /\ resp[2].t = "list" /\ out[2] = resp[2]

GuardedOps ==
    {"get_ram", "get_ram_array", "put_ram", "load_parameters", "scope_save_parameter"}

\* C5: in the uninitialized state (device_info is None) get_ram,
\* get_ram_array, put_ram, load_parameters and scope_save_parameter raise
\* the "not initialized" error and write nothing to the transport.  (None
\* of the five changes device_info, so it is None before the call when it
\* is None after.)
C5_UninitializedRejected ==
    device_info = PyNone /\ last_op \in GuardedOps =>
        last_out = PyExc("RuntimeError") /\ io = <<>>

\* scope_save_parameter, called in the uninitialized state, made a whole
\* transaction on the transport and returned the response.
C5_UninitializedTransaction ==
    /\ device_info = PyNone /\ last_op = "scope_save_parameter"
    /\ Len(io) = 2 /\ ~Raised(last_out)

\* A transport call of the last operation raised.
TransportRaised ==
    \E i \in 1..Len(io) :
        \/ io[i].ev = "write" /\ io[i].raised
        \/ io[i].ev = "read" /\ Raised(io[i].res)

\* The response to the DeviceInfo request of the last operation fails the
\* checksum, carries another service id or a non-zero error code, or is too
\* short to hold the device information.
DeviceInfoResponseBad ==
    /\ Len(io) >= 2 /\ io[2].ev = "read" /\ ~Raised(io[2].res)
    /\ \/ ChecksumMismatch(io[2].res.v)
       \/ ServiceIdDiffers(ID_DEVICE_INFO, io[2].res.v)
       \/ ErrorCode(io[2].res.v) \notin {{0}}
       \/ Len(io[2].res.v) < 50

\* C6: a failure during interface_handshake (a transport error, a checksum
\* mismatch, a service-id mismatch, a device error code, a malformed
\* response) is raised to the caller; the call does not return normally.
C6_HandshakeFailureRaised ==
    last_op = "interface_handshake" /\ (TransportRaised \/ DeviceInfoResponseBad)
        => Raised(last_out)

\* interface_handshake returned None after the transport raised.
C6_HandshakeReturnedNone ==
    last_op = "interface_handshake" /\ TransportRaised /\ last_out = PyNone

\* C7: for a received frame whose last byte differs from the recomputed
\* checksum, deserialize fails with FrameIntegrityError and the
\* service-specific parser is not invoked.
C7_ChecksumMismatchIntegrityError ==
    dres # NoResult /\ ChecksumMismatch(rx) =>
        dres.res = PyExc("FrameIntegrityError") /\ ~dres.invoked

\* deserialize of a frame with a wrong checksum ended in the TypeError of
\* the logging call.
C7_ChecksumMismatchTypeError ==
    dres # NoResult /\ ChecksumMismatch(rx) /\ dres.res = PyExc("TypeError")

\* C8: for a checksum-valid response with the expected service id and a
\* non-zero error code of the error table, deserialize raises a DeviceError
\* with the code and its description (never a payload, never nothing).
C8_ErrorCodeDeviceError ==
    \A c \in ErrorCodes \ {0} :
        /\ dres # NoResult /\ ChecksumValid(rx)
        /\ ServiceIdMatches(frm.service_id, rx) /\ ErrorCode(rx) = {c}
        => dres.res = [t |-> "raise", exc |-> "DeviceError", code |-> c,
                       description |-> ErrorText(c)]

\* deserialize of a valid response with error code 64 returned None.
C8_ErrorCodeReturnedNone ==
    /\ dres # NoResult /\ ChecksumValid(rx)
    /\ ServiceIdMatches(frm.service_id, rx) /\ ErrorCode(rx) = {64}
    /\ dres.res = PyNone

\* C9: the service-specific parser is invoked if and only if the fill bytes
\* are removed, the checksum matches, the byte at index 3 is the expected
\* service id and the byte at index 4 is 0; a checksum-valid response with
\* another service id is reported as ServiceMismatchError.
C9_ParserGuardedMismatchReported ==
    dres # NoResult =>
        /\ dres.invoked <=> /\ ChecksumValid(rx)
                            /\ ServiceIdMatches(frm.service_id, rx)
                            /\ ErrorCode(rx) = {0}
        /\ ChecksumValid(rx) /\ ServiceIdDiffers(frm.service_id, rx)
              => dres.res = PyExc("ServiceMismatchError")

\* deserialize of a valid response with another service id returned None.
C9_MismatchReturnedNone ==
    /\ dres # NoResult /\ ChecksumValid(rx) /\ ServiceIdDiffers(frm.service_id, rx)
    /\ dres.res = PyNone /\ ~dres.invoked

\* C10: serializing the DeviceInfo request frame gives exactly the bytes
\* 0x55, 0x01, 0x01, 0x00, 0x57.
C10_DeviceInfoRequestBytes ==
    frm.kind = "DeviceInfo" /\ tx # NoResult => tx = PyBytes(<<85, 1, 1, 0, 87>>)

\* The DeviceInfo request has been serialized.
C10_DeviceInfoSerialized == frm.kind = "DeviceInfo" /\ tx.t = "bytes"

\* C11: the checksum of a byte list is 0xAA when the sum of the bytes mod
\* 256 is 0x55, 0xFD when it is 0x02, and the sum mod 256 otherwise; it is
\* never 0x55 or 0x02.
C11_ChecksumRemap ==
    checksum # NoResult =>
        /\ checksum.v = (IF Sum(byte_list) % 256 = 85 THEN 170
                         ELSE IF Sum(byte_list) % 256 = 2 THEN 253
                         ELSE Sum(byte_list) % 256)
        /\ checksum.v \notin {85, 2}

\* The checksum of a list whose sum exceeds 256 and is 0x55 mod 256.
C11_WrappedSum55 ==
    checksum # NoResult /\ Sum(byte_list) > 256 /\ Sum(byte_list) % 256 = 85

\* C12: removing the fill bytes from the result of inserting them gives
\* back the byte sequence (as received: one hex string per byte).
C12_StuffingRoundTrip ==
    unstuffed # NoResult => unstuffed = PyList(HexList(byte_list))

\* A sequence starting with 0x55 (not stuffed at index 0) into which at
\* least two fill bytes were inserted has been stuffed and unstuffed.
C12_TwoFillBytesRemoved ==
    /\ unstuffed # NoResult /\ Len(byte_list) > 0 /\ byte_list[1] = 85
    /\ Len(stuffed.v) > Len(byte_list) + 1

\* C13: in every frame serialize returns, the byte at index 1 (SIZE) is the
\* number of DATA bytes the service put into self.data, whatever the number
\* of fill bytes inserted afterwards.
C13_SizeIsDataLength == tx.t = "bytes" => tx.v[2] = Len(produced)

\* A serialized frame whose SIZE is 0x55, followed by a fill byte.
C13_ReservedSizeStuffed ==
    tx.t = "bytes" /\ tx.v[2] = 85 /\ tx.v[3] = 0 /\ Len(tx.v) > Len(produced) + 4

\* C14: a ScopeSetup never holds more than 8 channels, and add_channel with
\* a name that is not in the mapping afterwards has returned the failure
\* indicator -1.
C14_AtMostEightChannels ==
    /\ Len(setup.channels) <= 8
    /\ call.op = "add_channel" /\ ~HasChannel(setup, call.name) => ret = PyInt(-1)

\* add_channel on a ScopeSetup holding 8 channels added a ninth.
C14_NinthChannelAdded ==
    Len(setup.channels) = 9 /\ call.op = "add_channel" /\ ret = PyInt(9)

\* C15: after remove_channel(name) the channel is gone from the mapping and
\* the trigger is not bound to it any more: a trigger that was bound to the
\* removed channel is back at its default (no channel, level 0, delay 0,
\* edge 1, mode 0).
C15_RemoveResetsTrigger ==
    call.op = "remove_channel" =>
        /\ ~HasChannel(setup, call.name)
        /\ setup.scope_trigger.channel # PyNone
              => setup.scope_trigger.channel.name # call.name
        /\ setup.scope_trigger.channel = PyNone => setup.scope_trigger = ScopeTrigger

\* The ScopeSetup of frame_save_parameter.py after remove_channel: the
\* trigger is still bound to the removed channel.
C15_TriggerStillBound ==
    /\ module = "frame_save_parameter" /\ call.op = "remove_channel"
    /\ setup.scope_trigger.channel # PyNone
    /\ setup.scope_trigger.channel.name = call.name
    /\ setup.scope_trigger.trigger_level = 5

\* C16: when the GetRam parser is given a validated response whose SIZE
\* field declares N + 2 and that holds the bytes at offsets 5 .. 5+N-1, it
\* returns a byte buffer of exactly N bytes, equal in order to those bytes.
C16_GetRamByteExact ==
    /\ frm.kind = "GetRam" /\ dres # NoResult /\ dres.invoked
    /\ Int16(dres.received[2]) >= 2
    /\ Int16(dres.received[2]) + 4 <= Len(dres.received)
    => /\ dres.res.t = "bytes"
       /\ Len(dres.res.v) = Int16(dres.received[2]) - 2
       /\ \A i \in 1..Len(dres.res.v) : dres.res.v[i] = Int16(dres.received[5 + i])

\* A GetRam response with two data bytes, both reserved values that
\* travelled with a fill byte, has been parsed.
C16_TwoBytesReturned ==
    /\ frm.kind = "GetRam" /\ dres # NoResult /\ dres.invoked
    /\ Int16(dres.received[2]) = 4 /\ Len(dres.received) = 8
    /\ dres.res = PyBytes(<<85, 2>>)

\* C17: when the GetRam parser is given a response that is too short, or
\* whose declared SIZE is less than 2 or differs from the number of bytes
\* between NODE and the checksum, it raises ValueError.
C17_MalformedRejected ==
    /\ frm.kind = "GetRam" /\ dres # NoResult /\ dres.invoked
    /\ \/ Len(dres.received) < 2
       \/ Int16(dres.received[2]) < 2
       \/ Int16(dres.received[2]) # Len(dres.received) - 4
    => dres.res = PyExc("ValueError")

\* A GetRam response that declares SIZE 3 and carries four bytes between
\* NODE and the checksum has been parsed: one of its two data bytes was
\* returned.
C17_TruncatedReturned ==
    /\ frm.kind = "GetRam" /\ dres # NoResult /\ dres.invoked
    /\ Int16(dres.received[2]) = 3 /\ Len(dres.received) = 8
    /\ dres.res = PyBytes(<<85>>)

\* C18: the frame get_ram writes to the transport in ready state with word
\* width w declares SIZE = w + 3, has the GetRam service id as its first
\* DATA byte and holds the w + 3 DATA bytes between NODE and the checksum.
C18_GetRamRequestData ==
    last_op = "get_ram" /\ device_info # PyNone /\ io # <<>>
    => /\ io[1].data[2] = DeviceInfo.uc_width + 3
       /\ Len(io[1].data) >= DeviceInfo.uc_width + 7
       /\ io[1].data[4] = ID_GET_RAM

\* get_ram in ready state with word width 2 wrote a frame without DATA.
C18_EmptyRequestWritten ==
    /\ last_op = "get_ram" /\ device_info # PyNone /\ DeviceInfo.uc_width = 2
    /\ io # <<>> /\ io[1].ev = "write"
    /\ io[1].data = <<SYN, 0, NODE, 86>>

\* C19: for a PutRam or SaveParameter frame, deserializing a response with
\* a valid checksum and the frame's service id returns an empty result when
\* the status byte (index 4) is zero and the error-table text of the status
\* code when it is not.
C19_StatusInterpreted ==
    /\ frm.kind \in {"PutRam", "SaveParameter"} /\ dres # NoResult
    /\ ChecksumValid(rx) /\ ServiceIdMatches(frm.service_id, rx)
    => \A c \in ErrorCode(rx) :
           IF c = 0 THEN dres.res \in {PyNone, PyStr(""), PyBytes(<<>>)}
           ELSE dres.res = error_id(c)

\* A PutRam response whose status byte is zero was parsed and the text of
\* code 0 came back.
C19_SuccessReturnedText ==
    /\ frm.kind = "PutRam" /\ dres # NoResult /\ dres.invoked
    /\ ErrorCode(rx) = {0}
    /\ dres.res = PyStr("No Error")

\* C20: every serialize call of a LoadParameter frame returns
\* [0x55, 0x03, 0x01, 0x11, 0x01, 0x00, CRC].
C20_LoadParameterRequestBytes ==
    frm.kind = "LoadParameter" /\ tx # NoResult
    => tx = PyBytes(<<SYN, 3, NODE, ID_LOAD_PARAMETER, 1, 0,
                      _crc_checksum(<<SYN, 3, NODE, ID_LOAD_PARAMETER, 1, 0>>)>>)

\* The second serialize call of a LoadParameter frame raised AttributeError.
C20_SecondSerializeRaised ==
    /\ frm.kind = "LoadParameter" /\ serialize_calls = 2
    /\ tx = PyExc("AttributeError")
    /\ frm.unique_parameter = PyBytes(<<1, 0>>)

\* C21: deserializing a validated LoadParameter response (the parser is
\* reached) returns a LoadScopeData object.
C21_LoadScopeDataReturned ==
    frm.kind = "LoadParameter" /\ dres # NoResult /\ dres.invoked
    => dres.res.t = "LoadScopeData"

\* A LoadParameter response with a valid checksum, the LoadParameter
\* service id and error byte 0 was handed to the parser, which raised
\* TypeError.
C21_ParserCallRaised ==
    /\ frm.kind = "LoadParameter" /\ dres # NoResult /\ dres.invoked
    /\ ChecksumValid(rx) /\ ServiceIdMatches(ID_LOAD_PARAMETER, rx) /\ ErrorCode(rx) = {0}
    /\ dres.res = PyExc("TypeError")

\* C22: the frame scope_save_parameter writes to the transport declares a
\* SIZE of at least 3 (3 plus the buffer length), holds at least that many
\* DATA bytes, and its DATA starts with the SaveParameter service id and
\* the tag bytes 1, 0.
C22_SaveParameterRequestData ==
    last_op = "scope_save_parameter" /\ io # <<>>
    => /\ Len(io[1].data) >= 7
       /\ io[1].data[2] >= 3
       /\ SubSeq(io[1].data, 4, 6) = <<ID_SAVE_PARAMETER, 1, 0>>

\* scope_save_parameter wrote a frame without DATA and returned the
\* response of the device.
C22_EmptyRequestWritten ==
    /\ last_op = "scope_save_parameter" /\ Len(io) = 2
    /\ io[1].ev = "write" /\ io[1].data = <<SYN, 0, NODE, 86>>
    /\ last_out = io[2].res

\* C23: in a buffer get_buffer returned, the bytes after the 4-byte header
\* are one 6-byte record (source_type, source_location in 4 bytes
\* little-endian, data_type_size) for each enabled channel, in the order of
\* insertion, followed by the trigger block and nothing else.
C23_RecordsOfEnabledInOrder ==
    call.op = "get_buffer" /\ ret.t = "list" /\ ret.v # <<>>
    => LET enabled == SelectSeq(setup.channels, LAMBDA c : c.is_enable)
       IN  /\ Len(ret.v) = 4 + 6 * Len(enabled)
                           + (IF module = "scope"
                              THEN 12 + setup.scope_trigger.channel.data_type_size
                              ELSE 16)
           /\ \A j \in 1..Len(enabled) :
                  SubSeq(ret.v, 6 * j - 1, 6 * j + 4)
                    = <<enabled[j].source_type>> \o ToBytesLE(enabled[j].source_location, 4)
                      \o <<enabled[j].data_type_size>>

\* get_buffer returned a buffer for three channels added as "b", "a", "c",
\* of which "c" is disabled.
C23_UnsortedWithDisabled ==
    /\ call.op = "get_buffer" /\ ret.t = "list" /\ ret.v # <<>>
    /\ Len(setup.channels) = 3
    /\ setup.channels[1].name = "b" /\ setup.channels[2].name = "a"
    /\ setup.channels[3].name = "c" /\ ~setup.channels[3].is_enable

\* C24: get_buffer succeeds in every state of the ScopeSetup and its result
\* holds the 4-byte header and a trigger block (at least 14 bytes).
C24_GetBufferSucceeds ==
    call.op = "get_buffer" => ret.t = "list" /\ Len(ret.v) >= 4 + 14

\* get_buffer on a ScopeSetup with a channel and no trigger channel raised
\* AttributeError.
C24_NoTriggerChannelRaised ==
    /\ call.op = "get_buffer" /\ setup.channels # <<>>
    /\ setup.scope_trigger.channel = PyNone
    /\ ret = PyExc("AttributeError")

\* C25: in a buffer get_buffer returned, the 4 bytes before the trigger
\* edge and mode are trigger_delay times the sum of data_type_size over the
\* enabled channels, little-endian.
C25_DelayTimesEnabledSize ==
    call.op = "get_buffer" /\ ret.t = "list" /\ ret.v # <<>>
    => SubSeq(ret.v, Len(ret.v) - 5, Len(ret.v) - 2)
         = ToBytesLE(setup.scope_trigger.trigger_delay
                       * Sum([i \in 1..Len(setup.channels) |->
                                IF setup.channels[i].is_enable
                                THEN setup.channels[i].data_type_size ELSE 0]),
                     4)

\* get_buffer of services/scope.py returned a buffer for the enabled
\* channel "a" (2 bytes) and the disabled channel "c" (1 byte) with trigger
\* delay 1: the delay field is 3.
C25_DisabledChannelCounted ==
    /\ module = "scope" /\ call.op = "get_buffer" /\ ret.t = "list"
    /\ Len(setup.channels) = 2
    /\ setup.channels[1].name = "a" /\ setup.channels[2].name = "c"
    /\ setup.scope_trigger.trigger_delay = 1
    /\ SubSeq(ret.v, Len(ret.v) - 5, Len(ret.v) - 2) = <<3, 0, 0, 0>>

\* C26: in a buffer get_buffer returned for a trigger channel of width w,
\* the trigger block is 12 + w bytes long and its bytes 7 .. 6+w are the
\* trigger level, little-endian.
C26_LevelTakesWidthBytes ==
    call.op = "get_buffer" /\ ret.t = "list" /\ ret.v # <<>>
    => LET w == setup.scope_trigger.channel.data_type_size
           records == 6 * Len(SelectSeq(setup.channels, LAMBDA c : c.is_enable))
       IN  /\ Len(ret.v) = 4 + records + 12 + w
           /\ SubSeq(ret.v, 4 + records + 7, 4 + records + 6 + w)
                = ToBytesLE(setup.scope_trigger.trigger_level, w)

\* get_buffer of services/frame_save_parameter.py returned a buffer whose
\* trigger block is 16 bytes long for a trigger channel 2 bytes wide.
C26_FourByteLevel ==
    /\ module = "frame_save_parameter" /\ call.op = "get_buffer" /\ ret.t = "list"
    /\ setup.channels # <<>>
    /\ setup.scope_trigger.channel.data_type_size = 2
    /\ Len(ret.v) = 4 + 6 * Len(SelectSeq(setup.channels, LAMBDA c : c.is_enable)) + 16

\* C27: after the DeviceInfo parser returned the DeviceInfo class, the word
\* width is 2 when the four hex digits of the processor id (byte 11, then
\* byte 10) are in the 16-bit table and 4 when they are in the 32-bit table.
C27_TableIdGivesWidth ==
    frm.kind = "DeviceInfo" /\ dres # NoResult /\ dres.res = PyClass("DeviceInfo")
    => LET id == dres.received[12] \o dres.received[11]
       IN  /\ id \in processor_ids_16_bit => DeviceInfo.uc_width = 2
           /\ id \in processor_ids_32_bit => DeviceInfo.uc_width = 4

\* A complete response with processor id 0x0221, an entry of the 16-bit
\* table, was parsed and the word width is None.
C27_ListedIdNotFound ==
    /\ frm.kind = "DeviceInfo" /\ dres # NoResult /\ dres.res = PyClass("DeviceInfo")
    /\ dres.received[12] \o dres.received[11] = <<0, 2, 2, 1>>
    /\ <<0, 2, 2, 1>> \in processor_ids_16_bit
    /\ DeviceInfo.uc_width = NoneWidth

\* C28: in every ready state (device_info is cached) the word width is 2
\* or 4.
C28_ReadyWidthDefined == device_info # PyNone => DeviceInfo.uc_width \in {2, 4}

\* interface_handshake returned the DeviceInfo class and cached it, and
\* the word width is None.
C28_ReadyWithoutWidth ==
    /\ last_op = "interface_handshake" /\ last_out = PyClass("DeviceInfo")
    /\ device_info = PyClass("DeviceInfo")
    /\ DeviceInfo.uc_width = NoneWidth

\* C29: once device_info is cached, no call on the instance changes it or
\* the DeviceInfo attributes, and interface_handshake writes and reads
\* nothing and returns the cached object.
C29_ReadyStaysReady ==
    [][device_info # PyNone /\ last_op' # "LNet"
       => /\ device_info' = device_info
          /\ DeviceInfo' = DeviceInfo
          /\ last_op' = "interface_handshake" => io' = <<>> /\ last_out' = device_info]_vars

\* interface_handshake was called on a ready instance: no transport event,
\* the cached object came back.
C29_CachedHandshake ==
    /\ calls >= 2 /\ last_op = "interface_handshake"
    /\ device_info = PyClass("DeviceInfo") /\ last_out = device_info
    /\ io = <<>>

\* C30: the handshake of another LNet instance leaves every DeviceInfo
\* attribute read through a ready instance unchanged.
C30_OtherInstanceLeavesDeviceInfo ==
    [][device_info # PyNone /\ last_op' = "LNet" => DeviceInfo' = DeviceInfo]_vars

\* The instance became ready by its handshake, the only call on it; then
\* another instance completed its handshake with the 32-bit device 0x8220:
\* width and processor id read through the first instance are that
\* device's.
C30_WidthOfOtherDevice ==
    /\ calls = 2 /\ last_op = "LNet" /\ last_out = PyClass("DeviceInfo")
    /\ device_info = PyClass("DeviceInfo")
    /\ DeviceInfo.uc_width = 4
    /\ DeviceInfo.processorID = PyStr(<<8, 2, 2, 0>>)

\* C31: the transport events of a get_ram, put_ram, load_parameters or
\* scope_save_parameter call in ready state are one write followed by one
\* read: a read is never the first event, nothing follows the read, and a
\* call that does not raise has done both.
C31_WriteThenRead ==
    /\ last_op \in {"get_ram", "put_ram", "load_parameters", "scope_save_parameter"}
    /\ device_info # PyNone
    => /\ Len(io) <= 2
       /\ io # <<>> => io[1].ev = "write"
       /\ Len(io) = 2 => io[2].ev = "read" /\ ~io[1].raised
       /\ ~Raised(last_out) => Len(io) = 2

\* put_ram in ready state returned: one write, then one read.
C31_PutRamTransaction ==
    /\ last_op = "put_ram" /\ device_info # PyNone /\ ~Raised(last_out)
    /\ Len(io) = 2 /\ io[1].ev = "write" /\ io[2].ev = "read"

\* C32: when the device answers scope_save_parameter with a response that
\* has a wrong checksum, another service id or a non-zero error code, the
\* call raises or returns something other than the raw response.
C32_SaveResponseValidated ==
    /\ last_op = "scope_save_parameter" /\ Len(io) = 2 /\ io[2].res.t = "list"
    /\ \/ ChecksumMismatch(io[2].res.v)
       \/ ServiceIdDiffers(ID_SAVE_PARAMETER, io[2].res.v)
       \/ \E c \in ErrorCode(io[2].res.v) : c # 0
    => last_out # io[2].res

\* scope_save_parameter returned the response it read, whose checksum is
\* wrong.
C32_RawResponseReturned ==
    /\ last_op = "scope_save_parameter" /\ Len(io) = 2 /\ io[2].res.t = "list"
    /\ ChecksumMismatch(io[2].res.v)
    /\ last_out = io[2].res

\* The frame fields serialize joins before inserting fill bytes: SYN, SIZE,
\* NODE, DATA and CRC of the frame object.
Unstuffed == Framed(produced) \o <<frm.crc>>

\* C33: in every frame returned by serialize each byte at index >= 1 that is
\* 0x55 or 0x02 is followed by a 0x00, the frame is longer than its fields
\* by the number of reserved bytes among SIZE, NODE, DATA and CRC, and a
\* 0x55 that is not followed by 0x00 is at index 0.
C33_ReservedBytesStuffed ==
    tx.t = "bytes" =>
        /\ \A i \in 2..Len(tx.v) :
               tx.v[i] \in {RESERVED_SYN, RESERVED_02} => i < Len(tx.v) /\ tx.v[i + 1] = 0
        /\ Len(tx.v) - Len(Unstuffed)
               = Cardinality({i \in 2..Len(Unstuffed) :
                                  Unstuffed[i] \in {RESERVED_SYN, RESERVED_02}})
        /\ \A i \in 1..Len(tx.v) :
               tx.v[i] = RESERVED_SYN /\ (i = Len(tx.v) \/ tx.v[i + 1] # 0) => i = 1

\* serialize returned a PutRam frame whose SIZE byte is 0x55 and a frame whose
\* data hold both reserved values: fill bytes were inserted.
C33_FillBytesInserted ==
    /\ tx.t = "bytes" /\ frm.kind = "PutRam"
    /\ Len(tx.v) >= Len(Unstuffed) + 2
    /\ \/ tx.v[2] = RESERVED_SYN
       \/ \E i, j \in 4..Len(tx.v) : tx.v[i] = RESERVED_SYN /\ tx.v[j] = RESERVED_02

\* C34: the bytes serialize returned, received back as hex strings, have
\* their fill bytes removed to SYN, SIZE, NODE, DATA, CRC and pass
\* frame_integrity.
C34_SerializedFrameAccepted ==
    tx.t = "bytes" /\ rx = HexList(tx.v) =>
        /\ remove_fill_byte(rx) = PyList(HexList(Unstuffed))
        /\ frame_integrity(HexList(Unstuffed)) = PyBool(TRUE)
        /\ dres # NoResult => /\ dres.received = HexList(Unstuffed)
                              /\ dres.res # PyExc("IndexError")
                              /\ ~ChecksumMismatch(rx)

\* deserialize has processed a looped-back PutRam frame with fill bytes.
C34_LoopbackDeserialized ==
    /\ tx.t = "bytes" /\ rx = HexList(tx.v) /\ dres # NoResult
    /\ frm.kind = "PutRam" /\ Len(rx) > Len(dres.received)

\* C35: once serialize has returned a byte sequence, another serialize call
\* on the same frame object returns the same byte sequence.
C35_SerializeRepeatable ==
    [][serialize_calls' = serialize_calls + 1 /\ tx.t = "bytes" => tx' = tx]_vars

\* A LoadParameter frame has been serialized twice with two different
\* results.
C35_SecondResultDiffers ==
    /\ frm.kind = "LoadParameter" /\ serialize_calls = 2
    /\ tx.t = "raise"
    /\ serialize([frm EXCEPT !.unique_parameter = PyInt(1)]).res.t = "bytes"

\* C36: when interface_handshake writes the LoadParameter request (the
\* third transport event of the call), a DeviceInfo response has been
\* validated and is cached.
C36_LoadParameterAfterDeviceInfo ==
    last_op = "interface_handshake" /\ Len(io) >= 3 =>
        /\ device_info # PyNone
        /\ ~DeviceInfoResponseBad

\* The DeviceInfo response carried another service id and nothing was
\* cached, and the LoadParameter request was written all the same.
C36_LoadParameterSentUnvalidated ==
    /\ last_op = "interface_handshake" /\ Len(io) >= 3
    /\ io[2].res.t = "list" /\ ServiceIdDiffers(ID_DEVICE_INFO, io[2].res.v)
    /\ device_info = PyNone
    /\ io[3].ev = "write"
    /\ io[3].data = <<SYN, 3, NODE, ID_LOAD_PARAMETER, 1, 0, 107>>

\* C37: after an interface_handshake that used the transport and failed (a
\* transport call raised, or the DeviceInfo response was rejected),
\* device_info is None.
C37_FailedHandshakeUninitialized ==
    /\ last_op = "interface_handshake" /\ io # <<>>
    /\ TransportRaised \/ DeviceInfoResponseBad
    => device_info = PyNone

\* The read of the LoadParameter response raised: interface_handshake
\* returned None and the DeviceInfo of the first exchange stays cached.
C37_FailedHandshakeCached ==
    /\ last_op = "interface_handshake" /\ last_out = PyNone
    /\ Len(io) = 4 /\ Raised(io[4].res)
    /\ device_info = PyClass("DeviceInfo")

\* The length of the trigger block that ends a buffer of get_buffer.
TriggerBlockLen ==
    IF module = "scope" THEN 12 + setup.scope_trigger.channel.data_type_size ELSE 16

\* C38: in a buffer get_buffer returned, the channel-count byte (offset 1)
\* is the number of 6-byte channel records between the 4-byte header and the
\* trigger block.
C38_CountMatchesRecords ==
    call.op = "get_buffer" /\ ret.t = "list" /\ ret.v # <<>>
    => 6 * ret.v[2] = Len(ret.v) - 4 - TriggerBlockLen

\* get_buffer returned a buffer for channels "a", "b" and the disabled "c":
\* the count byte is 3 and two records follow.
C38_DisabledChannelCounted ==
    /\ call.op = "get_buffer" /\ ret.t = "list" /\ ret.v # <<>>
    /\ {setup.channels[i].name : i \in 1..Len(setup.channels)} = {"a", "b", "c"}
    /\ ret.v[2] = 3
    /\ Len(ret.v) = 4 + 6 * 2 + TriggerBlockLen

\* C39: remove_channel never fails.  A name that is not in the mapping
\* leaves channels and trigger unchanged; an existing channel that is not
\* the trigger channel is the only one removed and the trigger stays.
C39_RemoveChannelTotal ==
    [][call'.op = "remove_channel"
       => /\ ~Raised(ret')
          /\ ~HasChannel(setup, call'.name) => setup' = setup
          /\ /\ HasChannel(setup, call'.name)
             /\ \/ setup.scope_trigger.channel = PyNone
                \/ setup.scope_trigger.channel.name # call'.name
             => /\ setup'.channels
                     = SelectSeq(setup.channels, LAMBDA c : c.name # call'.name)
                /\ setup'.scope_trigger = setup.scope_trigger]_vars

\* remove_channel of services/scope.py raised AttributeError for a
\* ScopeSetup without trigger channel.
C39_RemoveRaised ==
    /\ module = "scope" /\ call.op = "remove_channel"
    /\ setup.scope_trigger.channel = PyNone
    /\ ret = PyExc("AttributeError")

\* C40: add_channel with trigger = False and a name already in the
\* ScopeSetup leaves the ScopeSetup as it is (the stored channel objects,
\* their order and the trigger) and returns the number of channels.
C40_ReAddChangesNothing ==
    [][call'.op = "add_channel" /\ ~call'.trigger /\ HasChannel(setup, call'.name)
       => setup' = setup /\ ret' = PyInt(Len(setup.channels))]_vars

\* add_channel was called with another object of the name "a", which is
\* not the last of three stored channels: the stored object is the first
\* one.
C40_ReAddedFirstChannel ==
    /\ call.op = "add_channel" /\ ~call.trigger /\ call.name = "a"
    /\ Len(setup.channels) = 3 /\ ret = PyInt(3)
    /\ setup.channels[1] = ChannelOf("a")
    /\ setup.channels[1] # AnotherChannelOf("a")
    /\ setup.scope_trigger.channel # PyNone

====
